---- MODULE Spec2Model ----
(***************************************************************************)
(* Model of data_processor.py (Data Agent v5.0, chapter 1 data chain).     *)
(*                                                                         *)
(* Encoding of the Python values:                                          *)
(*   - a dict is a function whose DOMAIN is the set of its keys;           *)
(*   - a list is a sequence;                                               *)
(*   - a confidence is an integer number of hundredths (0.85 is 85), and   *)
(*     NoConfidence stands for an item without a 'confidence' key;         *)
(*   - the chapter text is the set of trigger phrases that occur in it     *)
(*     (the code only ever asks `phrase in chapter_content`; no trigger    *)
(*     phrase is a substring of another, so every subset is the phrase     *)
(*     set of some text, and the empty text has the empty set);            *)
(*   - the Chinese literals are written in pinyin: "jiaose" is the type    *)
(*     'role', "didian" the type 'location', "ch1" the integer 1 stored    *)
(*     in current['last_chapter'], "" the empty string;                    *)
(*   - datetime.now() is the logical clock `clock`.                        *)
(***************************************************************************)
EXTENDS Integers, Sequences, FiniteSets, TLC

VARIABLES
    pc,               \* position of the running script / of the function under check
    chapter_content,  \* the chapter text (set of trigger phrases it contains)
    extracted,        \* the 5-tuple returned by extract_entities, as a record
    uncertain,        \* the argument of disambiguate
    resolved,         \* what disambiguate returned: [adopted, warnings]
    error,            \* the exception the last call ended with, "none" if it returned
    state,            \* the in-memory state document (dict)
    args,             \* the arguments of the last update_state call
    state_file,       \* content of state.json on disk: the chunks written so far
    index_db,         \* index.db: chapters, entity_appearances, scenes
    file_at_start,    \* content of state.json when the current run started
    report,           \* content of report_chapter_1.json
    clock,            \* logical time, datetime.now()
    runs              \* number of script runs / update_state calls started

vars == <<pc, chapter_content, extracted, uncertain, resolved, error, state,
          args, state_file, file_at_start, index_db, report, clock, runs>>

(***************************************************************************)
(* Bounds                                                                  *)
(***************************************************************************)
MaxUncertain == 2   \* longest list of uncertain mentions handed to disambiguate
MaxMerges == 2      \* update_state calls in one behaviour of SpecMerge
MaxRuns == 2        \* runs of main() in one behaviour of SpecRun

(***************************************************************************)
(* Generic dict / list helpers                                             *)
(***************************************************************************)
EmptyDict == [k \in {} |-> ""]

Get(d, k, default) == IF k \in DOMAIN d THEN d[k] ELSE default

Put(d, k, v) == [x \in (DOMAIN d) \cup {k} |-> IF x = k THEN v ELSE d[x]]

Range(s) == {s[i] : i \in DOMAIN s}

IsPrefix(s, t) == Len(s) <= Len(t) /\ SubSeq(t, 1, Len(s)) = s

SeqsUpTo(S, n) == UNION {[1..k -> S] : k \in 0..n}

(***************************************************************************)
(* Step B: extract_entities                                                *)
(***************************************************************************)
Phrases == {"yefan", "guwanqing", "zhongnian_funv", "fangdong_zhizu",
            "jingya_xiaoqu", "602shi", "3haolou", "zufang", "jia_weixin",
            "zuchuqu", "huan_fangdai"}

Contains(phrase, content) == phrase \in content

EntitiesAppeared(content) ==
    (IF Contains("yefan", content)
        THEN << [id |-> "yefan", type |-> "jiaose",
                 mentions |-> <<"yefan", "ta">>, confidence |-> 95] >>
        ELSE << >>)
    \o
    (IF Contains("guwanqing", content)
        THEN << [id |-> "guwanqing", type |-> "jiaose",
                 mentions |-> <<"guwanqing", "ta_f", "gu_nvshi">>, confidence |-> 95] >>
        ELSE << >>)

EntitiesNewRoomAnd(content) ==
    (IF Contains("zhongnian_funv", content) /\ Contains("fangdong_zhizu", content)
        THEN << [suggested_id |-> "middle_woman", name |-> "zhongnian_funv",
                 type |-> "jiaose", tier |-> "zhuangshi", desc |-> "d_woman"] >>
        ELSE << >>)
    \o
    (IF Contains("jingya_xiaoqu", content)
        THEN << [suggested_id |-> "jingya_community", name |-> "jingya_xiaoqu",
                 type |-> "didian", tier |-> "zhongyao", desc |-> "d_community"] >>
        ELSE << >>)
    \o
    (IF Contains("602shi", content) /\ Contains("3haolou", content)
        THEN << [suggested_id |-> "602_room", name |-> "602shi",
                 type |-> "didian", tier |-> "zhongyao", desc |-> "d_room"] >>
        ELSE << >>)

EntitiesNew(content) ==
    (IF Contains("zhongnian_funv", content) /\ Contains("fangdong_zhizu", content)
        THEN << [suggested_id |-> "middle_woman", name |-> "zhongnian_funv",
                 type |-> "jiaose", tier |-> "zhuangshi", desc |-> "d_woman"] >>
        ELSE << >>)
    \o
    (IF Contains("jingya_xiaoqu", content)
        THEN << [suggested_id |-> "jingya_community", name |-> "jingya_xiaoqu",
                 type |-> "didian", tier |-> "zhongyao", desc |-> "d_community"] >>
        ELSE << >>)
    \o
    (IF Contains("602shi", content) \/ Contains("3haolou", content)
        THEN << [suggested_id |-> "602_room", name |-> "602shi",
                 type |-> "didian", tier |-> "zhongyao", desc |-> "d_room"] >>
        ELSE << >>)

StateChanges(content) ==
    (IF Contains("zufang", content) /\ Contains("jia_weixin", content)
        THEN << [entity_id |-> "yefan", field |-> "location", old |-> "nowhere",
                 new |-> "jingya_3_602", reason |-> "rented"],
                [entity_id |-> "yefan", field |-> "status", old |-> "job_hunting",
                 new |-> "renting", reason |-> "tenant"] >>
        ELSE << >>)
    \o
    (IF Contains("zuchuqu", content) \/ Contains("huan_fangdai", content)
        THEN << [entity_id |-> "guwanqing", field |-> "location", old |-> "gu_property",
                 new |-> "jingya_3_602_property", reason |-> "let_to_yefan"] >>
        ELSE << >>)

\* step 8 of extract_entities: appended whatever the text is
RelationshipsNew(content) ==
    << [from |-> "yefan", to |-> "guwanqing", type |-> "fangdong_zuke",
        description |-> "yefan_rents_from_guwanqing"] >>

\* step 9 of extract_entities: appended whatever the text is
Uncertain(content) ==
    << [mention |-> "that_gentleman", context |-> "woman_addressing_yefan",
        candidates |-> << [type |-> "jiaose", id |-> "yefan"] >>,
        confidence |-> 85] >>

extract_entities(content, existing_entities, alias_to_entities) ==
    [entities_appeared |-> EntitiesAppeared(content),
     entities_new      |-> EntitiesNew(content),
     state_changes     |-> StateChanges(content),
     relationships_new |-> RelationshipsNew(content),
     uncertain         |-> Uncertain(content)]

NoExtraction ==
    [entities_appeared |-> << >>, entities_new |-> << >>, state_changes |-> << >>,
     relationships_new |-> << >>, uncertain |-> << >>]

(***************************************************************************)
(* Step C: disambiguate                                                    *)
(***************************************************************************)
HighConfidence == 80
MidConfidence == 50
NoConfidence == -1

ItemConfidence(item) ==
    IF item.confidence = NoConfidence THEN 0 ELSE item.confidence

\* One iteration of the loop of disambiguate: what it appends, or the
\* exception the unguarded item['candidates'][0] ends it with.
ClassifyInclusive(item) ==
    LET confidence == ItemConfidence(item) IN
    IF confidence >= HighConfidence
    THEN IF item.candidates = << >>
         THEN [error |-> "IndexError", adopted |-> << >>, warnings |-> << >>]
         ELSE [error |-> "none",
               adopted |-> << [mention |-> item.mention,
                               adopted |-> item.candidates[1].id,
                               confidence |-> confidence, reason |-> "high"] >>,
               warnings |-> << >>]
    ELSE IF confidence > MidConfidence
    THEN IF item.candidates = << >>
         THEN [error |-> "IndexError", adopted |-> << >>, warnings |-> << >>]
         ELSE [error |-> "none",
               adopted |-> << [mention |-> item.mention,
                               adopted |-> item.candidates[1].id,
                               confidence |-> confidence, reason |-> "medium"] >>,
               warnings |-> << [kind |-> "medium_match", mention |-> item.mention,
                                id |-> item.candidates[1].id,
                                confidence |-> confidence] >>]
    ELSE [error |-> "none", adopted |-> << >>,
          warnings |-> << [kind |-> "needs_manual_review", mention |-> item.mention,
                           id |-> "", confidence |-> 0] >>]

Classify(item) ==
    LET confidence == ItemConfidence(item) IN
    IF confidence > HighConfidence
    THEN IF item.candidates = << >>
         THEN [error |-> "IndexError", adopted |-> << >>, warnings |-> << >>]
         ELSE [error |-> "none",
               adopted |-> << [mention |-> item.mention,
                               adopted |-> item.candidates[1].id,
                               confidence |-> confidence, reason |-> "high"] >>,
               warnings |-> << >>]
    ELSE IF confidence > MidConfidence
    THEN IF item.candidates = << >>
         THEN [error |-> "IndexError", adopted |-> << >>, warnings |-> << >>]
         ELSE [error |-> "none",
               adopted |-> << [mention |-> item.mention,
                               adopted |-> item.candidates[1].id,
                               confidence |-> confidence, reason |-> "medium"] >>,
               warnings |-> << [kind |-> "medium_match", mention |-> item.mention,
                                id |-> item.candidates[1].id,
                                confidence |-> confidence] >>]
    ELSE [error |-> "none", adopted |-> << >>,
          warnings |-> << [kind |-> "needs_manual_review", mention |-> item.mention,
                           id |-> "", confidence |-> 0] >>]

RECURSIVE DisambiguateFrom(_, _, _, _)
DisambiguateFrom(items, i, adopted, warnings) ==
    IF i > Len(items)
    THEN [error |-> "none", adopted |-> adopted, warnings |-> warnings]
    ELSE LET r == Classify(items[i]) IN
         IF r.error # "none"
         THEN [error |-> r.error, adopted |-> << >>, warnings |-> << >>]
         ELSE DisambiguateFrom(items, i + 1, adopted \o r.adopted, warnings \o r.warnings)

disambiguate(items) == DisambiguateFrom(items, 1, << >>, << >>)

NothingResolved == [adopted |-> << >>, warnings |-> << >>]

(***************************************************************************)
(* The state document (state.json) and Step D: update_state                *)
(*                                                                         *)
(* entities_v3 is an insertion-ordered dict of type buckets: `keys` is the *)
(* order in which `for entity_type in entities_v3` visits the buckets and  *)
(* `at` maps each type to its bucket (a dict id -> entity).                *)
(***************************************************************************)
NoBuckets == [keys |-> << >>, at |-> EmptyDict]

DefaultCurrent ==
    [realm |-> "putongren", location |-> "", status |-> "", last_chapter |-> "ch1"]

NewEntityRecord(new_entity) ==
    [id |-> new_entity.suggested_id,
     canonical_name |-> new_entity.name,
     aliases |-> << >>,
     tier |-> Get(new_entity, "tier", "putong"),
     desc |-> Get(new_entity, "desc", ""),
     current |-> DefaultCurrent,
     history |-> << >>,
     created_chapter |-> 1,
     first_appearance |-> "zhengwen/0001"]

\* body of the loop `for new_entity in entities_new`
AddEntity(st, new_entity) ==
    LET entity_id == new_entity.suggested_id
        entity_type == new_entity.type
        name == new_entity.name
        ev == st.entities_v3
        ev1 == IF entity_type \in DOMAIN ev.at
               THEN ev
               ELSE [keys |-> Append(ev.keys, entity_type),
                     at |-> Put(ev.at, entity_type, EmptyDict)]
        ev2 == [ev1 EXCEPT !.at[entity_type] = Put(@, entity_id, NewEntityRecord(new_entity))]
        ai == st.alias_index
        ai1 == IF name \in DOMAIN ai THEN ai ELSE Put(ai, name, << >>)
        ai2 == [ai1 EXCEPT ![name] = Append(@, [type |-> entity_type, id |-> entity_id])]
    IN [entities_v3 |-> ev2, alias_index |-> ai2]

RECURSIVE AddEntities(_, _, _)
AddEntities(st, entities_new, i) ==
    IF i > Len(entities_new) THEN st
    ELSE AddEntities(AddEntity(st, entities_new[i]), entities_new, i + 1)

\* the first bucket, in dict order, that holds entity_id; "" when none does
FindType(ev, entity_id) ==
    LET hits == {i \in 1..Len(ev.keys) : entity_id \in DOMAIN ev.at[ev.keys[i]]} IN
    IF hits = {} THEN ""
    ELSE ev.keys[CHOOSE i \in hits : \A j \in hits : i <= j]

\* body of the loop `for change in state_changes`
ApplyChange(ev, change) ==
    LET entity_id == change.entity_id
        field == change.field
        new_value == change.new
        entity_type == FindType(ev, entity_id)
    IN IF entity_type = "" THEN ev
       ELSE LET entity == ev.at[entity_type][entity_id]
                old_value == Get(entity.current, field, "")
                current1 == Put(entity.current, field, new_value)
                current2 == Put(current1, "last_chapter", "ch1")
                record == [chapter |-> 1, field |-> field, old |-> old_value,
                           new |-> new_value, reason |-> Get(change, "reason", "")]
            IN [ev EXCEPT !.at[entity_type][entity_id] =
                    [entity EXCEPT !.current = current2,
                                   !.history = Append(entity.history, record)]]

RECURSIVE ApplyChanges(_, _, _)
ApplyChanges(ev, state_changes, i) ==
    IF i > Len(state_changes) THEN ev
    ELSE ApplyChanges(ApplyChange(ev, state_changes[i]), state_changes, i + 1)

RECURSIVE AddRelationships(_, _, _, _)
AddRelationships(rels, relationships_new, i, now) ==
    IF i > Len(relationships_new) THEN rels
    ELSE AddRelationships(
            Append(rels, [from |-> relationships_new[i].from,
                          to |-> relationships_new[i].to,
                          type |-> relationships_new[i].type,
                          description |-> relationships_new[i].description,
                          chapter |-> 1, created_at |-> now]),
            relationships_new, i + 1, now)

\* update_state up to, and without, the write of state.json
update_state(st, entities_appeared, entities_new, state_changes, relationships_new, now) ==
    LET s0 == [entities_v3 |-> Get(st, "entities_v3", NoBuckets),
               alias_index |-> Get(st, "alias_index", EmptyDict)]
        s1 == AddEntities(s0, entities_new, 1)
        ev == ApplyChanges(s1.entities_v3, state_changes, 1)
        rels == AddRelationships(Get(st, "relationships", << >>), relationships_new, 1, now)
        st1 == Put(st, "relationships", rels)
        st2 == Put(st1, "entities_v3", ev)
        st3 == Put(st2, "alias_index", s1.alias_index)
    IN Put(st3, "metadata",
           Put(Put(st.metadata, "current_chapter", 1), "updated_at", now))

(***************************************************************************)
(* state.json on disk.  json.dump writes the document piece by piece into  *)
(* the file that open(STATE_FILE, 'w') has truncated; the file is the      *)
(* first `written` of the Chunks pieces of the serialisation of `doc`.     *)
(***************************************************************************)
Chunks == 2

WholeFile(doc) == [doc |-> doc, written |-> Chunks]

TruncatedFile(doc) == [doc |-> doc, written |-> 0]

IsComplete(file) == file.written = Chunks

(***************************************************************************)
(* Initial stores                                                          *)
(***************************************************************************)
Metadata0 == [current_chapter |-> 0, updated_at |-> 0]

SeedEntity(id, name) ==
    [id |-> id, canonical_name |-> name, aliases |-> << >>, tier |-> "hexin",
     desc |-> "", current |-> DefaultCurrent, history |-> << >>,
     created_chapter |-> 0, first_appearance |-> ""]

\* a freshly initialised project: only the metadata
EmptyStore == [x \in {"metadata"} |-> Metadata0]

\* a project whose two main characters are already registered
SeededStore ==
    [entities_v3 |->
        [keys |-> << "jiaose" >>,
         at |-> [t \in {"jiaose"} |->
                    [i \in {"yefan", "guwanqing"} |-> SeedEntity(i, i)]]],
     alias_index |->
        [n \in {"yefan", "guwanqing"} |-> << [type |-> "jiaose", id |-> n] >>],
     relationships |-> << >>,
     metadata |-> Metadata0]

InitialStores == {EmptyStore, SeededStore}

NoArgs == [entities_new |-> << >>, state_changes |-> << >>, relationships_new |-> << >>]

NoIndexDb == [created |-> FALSE, chapters |-> EmptyDict,
              entity_appearances |-> << >>, scenes |-> << >>]

(***************************************************************************)
(* Specification of extract_entities alone                                 *)
(***************************************************************************)
InitExtract ==
    /\ pc = "input"
    /\ chapter_content \in SUBSET Phrases
    /\ state \in InitialStores
    /\ extracted = NoExtraction
    /\ uncertain = << >>
    /\ resolved = NothingResolved
    /\ error = "none"
    /\ args = NoArgs
    /\ state_file = WholeFile(state)
    /\ file_at_start = state_file
    /\ index_db = NoIndexDb
    /\ report = EmptyDict
    /\ clock = 0
    /\ runs = 0

ExtractEntities ==
    /\ pc = "input"
    /\ extracted' = extract_entities(chapter_content,
                                     Get(state, "entities_v3", NoBuckets),
                                     Get(state, "alias_index", EmptyDict))
    /\ pc' = "extracted"
    /\ UNCHANGED <<chapter_content, uncertain, resolved, error, state, args,
                   state_file, file_at_start, index_db, report, clock, runs>>

NextExtract == ExtractEntities

SpecExtract == InitExtract /\ [][NextExtract]_vars

(***************************************************************************)
(* Specification of disambiguate alone                                     *)
(***************************************************************************)
Confidences == {NoConfidence, 0, 49, 50, 51, 79, 80, 81, 85, 100}

CandidateLists ==
    { << >>,
      << [type |-> "jiaose", id |-> "yefan"] >>,
      << [type |-> "jiaose", id |-> "guwanqing"], [type |-> "jiaose", id |-> "yefan"] >> }

\* lists of uncertain mentions; the i-th mention of a list is named i
UncertainLists ==
    UNION { { [i \in 1..n |-> [mention |-> i, context |-> "",
                                candidates |-> cs[i], confidence |-> cf[i]]] :
                cs \in [1..n -> CandidateLists], cf \in [1..n -> Confidences] } :
            n \in 0..MaxUncertain }

InitResolve ==
    /\ pc = "input"
    /\ uncertain \in UncertainLists
    /\ chapter_content = {}
    /\ state = EmptyStore
    /\ extracted = NoExtraction
    /\ resolved = NothingResolved
    /\ error = "none"
    /\ args = NoArgs
    /\ state_file = WholeFile(state)
    /\ file_at_start = state_file
    /\ index_db = NoIndexDb
    /\ report = EmptyDict
    /\ clock = 0
    /\ runs = 0

Disambiguate ==
    /\ pc = "input"
    /\ LET r == disambiguate(uncertain) IN
        /\ error' = r.error
        /\ resolved' = [adopted |-> r.adopted, warnings |-> r.warnings]
    /\ pc' = "resolved"
    /\ UNCHANGED <<chapter_content, extracted, uncertain, state, args,
                   state_file, file_at_start, index_db, report, clock, runs>>

NextResolve == Disambiguate

SpecResolve == InitResolve /\ [][NextResolve]_vars

(***************************************************************************)
(* Claims about disambiguate (SpecResolve)                                 *)
(***************************************************************************)
AdoptedFor(i) == SelectSeq(resolved.adopted, LAMBDA a : a.mention = i)

WarningsFor(i) == SelectSeq(resolved.warnings, LAMBDA w : w.mention = i)

HasCandidates(i) == uncertain[i].candidates # << >>

HasConfidence(i) == uncertain[i].confidence # NoConfidence

AdoptsTop(i) ==
    /\ Len(AdoptedFor(i)) = 1
    /\ AdoptedFor(i)[1].adopted = uncertain[i].candidates[1].id
    /\ AdoptedFor(i)[1].confidence = uncertain[i].confidence

ThreeTiers(i) ==
    LET c == uncertain[i].confidence IN
    /\ c > 80 => AdoptsTop(i) /\ Len(WarningsFor(i)) = 0
    /\ (c > 50 /\ c <= 80) => AdoptsTop(i) /\ Len(WarningsFor(i)) = 1
    /\ c <= 50 => /\ Len(AdoptedFor(i)) = 0
                  /\ Len(WarningsFor(i)) = 1
                  /\ WarningsFor(i)[1].kind = "needs_manual_review"

\* C1: every mention with a non-empty candidate list and confidence c is
\* classified by the three tiers: c > 0.8 adopts the first candidate without a
\* warning, 0.5 < c <= 0.8 adopts it with exactly one warning, c <= 0.5 adopts
\* nothing and gives exactly one 'needs manual review' warning; a call whose
\* mentions all have candidates returns; and the mention (0.85, [yefan]) alone
\* gives the one adopted entry (yefan, 0.85) and no warning.
C1_ThreeTierPolicy ==
    pc = "resolved" =>
        /\ (\A i \in DOMAIN uncertain : HasCandidates(i)) => error = "none"
        /\ error = "none" =>
              \A i \in DOMAIN uncertain :
                  HasCandidates(i) /\ HasConfidence(i) => ThreeTiers(i)
        /\ ( /\ Len(uncertain) = 1
             /\ uncertain[1].confidence = 85
             /\ uncertain[1].candidates = << [type |-> "jiaose", id |-> "yefan"] >> )
           => /\ Len(resolved.adopted) = 1
              /\ resolved.adopted[1].adopted = "yefan"
              /\ resolved.adopted[1].confidence = 85
              /\ resolved.warnings = << >>

\* a returned call that classified one mention in the top tier and one in the
\* middle tier
C1_Witness ==
    /\ pc = "resolved"
    /\ error = "none"
    /\ Len(uncertain) = 2
    /\ HasCandidates(1) /\ uncertain[1].confidence = 85
    /\ HasCandidates(2) /\ uncertain[2].confidence = 51
    /\ Len(resolved.adopted) = 2
    /\ Len(resolved.warnings) = 1

AtBoundary(i) == HasCandidates(i) /\ uncertain[i].confidence = 80

\* C2, as stated: a mention whose confidence is exactly 0.8 (with candidates)
\* is adopted and gets no warning.
C2_BoundaryNoWarning ==
    (pc = "resolved" /\ error = "none") =>
        \A i \in DOMAIN uncertain :
            AtBoundary(i) => AdoptsTop(i) /\ Len(WarningsFor(i)) = 0

\* C2, amended: a mention whose confidence is exactly 0.8 (with candidates) is
\* adopted and gets exactly one warning, the medium-confidence one.
C2_BoundaryOneWarning ==
    (pc = "resolved" /\ error = "none") =>
        \A i \in DOMAIN uncertain :
            AtBoundary(i) => /\ AdoptsTop(i)
                             /\ Len(WarningsFor(i)) = 1
                             /\ WarningsFor(i)[1].kind = "medium_match"

C2_Witness ==
    /\ pc = "resolved"
    /\ error = "none"
    /\ Len(uncertain) = 1
    /\ AtBoundary(1)
    /\ Len(resolved.adopted) = 1

NoCandidateErrorFor(i) ==
    \/ error = "NoCandidateError"
    \/ \E k \in DOMAIN resolved.warnings :
          /\ resolved.warnings[k].kind = "NoCandidateError"
          /\ resolved.warnings[k].mention = i

OrdinaryWarningFor(i) ==
    \E k \in DOMAIN WarningsFor(i) :
        WarningsFor(i)[k].kind \in {"medium_match", "needs_manual_review"}

\* C3: a mention with an empty candidate list ends, at any confidence, in
\* NoCandidateError: no index-out-of-range fault, no adopted entry and no
\* ordinary warning for it.
C3_NoCandidateError ==
    pc = "resolved" =>
        \A i \in DOMAIN uncertain :
            ~HasCandidates(i) =>
                /\ error # "IndexError"
                /\ NoCandidateErrorFor(i)
                /\ Len(AdoptedFor(i)) = 0
                /\ ~OrdinaryWarningFor(i)

(***************************************************************************)
(* Claims about extract_entities (SpecExtract)                             *)
(***************************************************************************)
\* C8: on the empty chapter text all five proposal lists are empty.
C8_EmptyTextEmptyProposals ==
    (pc = "extracted" /\ chapter_content = {}) =>
        /\ extracted.entities_appeared = << >>
        /\ extracted.entities_new = << >>
        /\ extracted.state_changes = << >>
        /\ extracted.relationships_new = << >>
        /\ extracted.uncertain = << >>

ScenarioPhrases == {"yefan", "guwanqing", "jingya_xiaoqu", "602shi", "zufang", "jia_weixin"}

InScenario ==
    /\ ScenarioPhrases \subseteq chapter_content
    /\ ~("zhongnian_funv" \in chapter_content /\ "fangdong_zhizu" \in chapter_content)
    /\ "zuchuqu" \notin chapter_content
    /\ "huan_fangdai" \notin chapter_content

\* C9: a text with the six scenario phrases and none of the other triggers
\* gives 2 appeared entities (yefan, guwanqing), 2 new entities, 2 state
\* changes, both of yefan, and the one relationship yefan -> guwanqing of type
\* landlord-tenant.
C9_Scenario ==
    (pc = "extracted" /\ InScenario) =>
        /\ Len(extracted.entities_appeared) = 2
        /\ extracted.entities_appeared[1].id = "yefan"
        /\ extracted.entities_appeared[2].id = "guwanqing"
        /\ Len(extracted.entities_new) = 2
        /\ Len(extracted.state_changes) = 2
        /\ \A k \in 1..2 : extracted.state_changes[k].entity_id = "yefan"
        /\ Len(extracted.relationships_new) = 1
        /\ extracted.relationships_new[1].from = "yefan"
        /\ extracted.relationships_new[1].to = "guwanqing"
        /\ extracted.relationships_new[1].type = "fangdong_zuke"

C9_Witness ==
    /\ pc = "extracted"
    /\ InScenario
    /\ "zhongnian_funv" \in chapter_content
    /\ "3haolou" \notin chapter_content

(***************************************************************************)
(* Specification of repeated update_state calls on one store               *)
(***************************************************************************)
MaxNew == 1       \* longest entities_new list of one call
MaxChanges == 1   \* longest state_changes list of one call

Types == {"jiaose", "didian"}

NewEntityInputs ==
    { [suggested_id |-> i, name |-> i, type |-> t, tier |-> "putong", desc |-> ""] :
        i \in {"yefan", "jingya_community"}, t \in Types }

\* 'old' is what the extraction proposes; update_state never reads it
ChangeInputs ==
    { [entity_id |-> i, field |-> f, old |-> "", new |-> v, reason |-> "r"] :
        i \in {"yefan", "jingya_community"},
        f \in {"location", "mood", "last_chapter"},
        v \in {"v1", "v2"} }

RelationshipInputs ==
    { [from |-> "yefan", to |-> "guwanqing", type |-> "fangdong_zuke", description |-> ""] }

InitMerge ==
    /\ pc = "idle"
    /\ state \in InitialStores
    /\ chapter_content = {}
    /\ extracted = NoExtraction
    /\ uncertain = << >>
    /\ resolved = NothingResolved
    /\ error = "none"
    /\ args = NoArgs
    /\ state_file = WholeFile(state)
    /\ file_at_start = state_file
    /\ index_db = NoIndexDb
    /\ report = EmptyDict
    /\ clock = 0
    /\ runs = 0

\* one whole call of update_state, the write of state.json included
Merge ==
    /\ pc \in {"idle", "merged"}
    /\ runs < MaxMerges
    /\ \E entities_new \in SeqsUpTo(NewEntityInputs, MaxNew),
          state_changes \in SeqsUpTo(ChangeInputs, MaxChanges),
          relationships_new \in SeqsUpTo(RelationshipInputs, 1) :
        /\ state' = update_state(state, << >>, entities_new, state_changes,
                                 relationships_new, clock + 1)
        /\ args' = [entities_new |-> entities_new, state_changes |-> state_changes,
                    relationships_new |-> relationships_new]
    /\ state_file' = WholeFile(state')
    /\ error' = "none"
    /\ clock' = clock + 1
    /\ runs' = runs + 1
    /\ pc' = "merged"
    /\ UNCHANGED <<chapter_content, extracted, uncertain, resolved,
                   file_at_start, index_db, report>>

NextMerge == Merge

SpecMerge == InitMerge /\ [][NextMerge]_vars

(***************************************************************************)
(* Claims about update_state (SpecMerge)                                   *)
(***************************************************************************)
Buckets == Get(state, "entities_v3", NoBuckets)

\* the entities of the store, as <<type, id>> pairs
Registered == {<<t, i>> \in Types \X {"yefan", "guwanqing", "jingya_community",
                                      "middle_woman", "602_room"} :
                  t \in DOMAIN Buckets.at /\ i \in DOMAIN Buckets.at[t]}

\* C5: across update_state calls a registered entity keeps its id in its
\* bucket and its history only grows (the history before a call is a prefix of
\* the history after it); a call that proposes a new entity under an id that
\* the bucket already has leaves the existing record as it was.
C5_HistoryOnlyGrows ==
    [][ \A e \in Registered :
          /\ e[1] \in DOMAIN Buckets'.at
          /\ e[2] \in DOMAIN Buckets'.at[e[1]]
          /\ Buckets'.at[e[1]][e[2]].id = e[2]
          /\ IsPrefix(Buckets.at[e[1]][e[2]].history, Buckets'.at[e[1]][e[2]].history)
          /\ args'.state_changes = << >> =>
                Buckets'.at[e[1]][e[2]] = Buckets.at[e[1]][e[2]] ]_vars

EntityNotFoundSurfaced(entity_id) ==
    \/ error = "EntityNotFoundError"
    \/ \E w \in Range(Get(state, "warnings", << >>)) :
          w.kind = "EntityNotFoundError" /\ w.entity_id = entity_id

UnknownChange(k) == FindType(Buckets, args.state_changes[k].entity_id) = ""

\* C6: a state change whose entity_id is in no bucket once the new entities of
\* the call are registered gives the caller EntityNotFoundError for that
\* change, and the change modifies no entity.
C6_EntityNotFound ==
    [][ (runs' = runs + 1) =>
          /\ \A k \in DOMAIN args'.state_changes :
                UnknownChange(k)' =>
                    EntityNotFoundSurfaced(args.state_changes[k].entity_id)'
          /\ ( /\ args'.entities_new = << >>
               /\ \A k \in DOMAIN args'.state_changes : UnknownChange(k)' )
             => Buckets' = Buckets ]_vars

FieldRecords(entity, field) == SelectSeq(entity.history, LAMBDA r : r.field = field)

CurrentAgreesWithHistory(entity) ==
    \A f \in {"location", "mood", "last_chapter", "status", "realm"} :
        LET recs == FieldRecords(entity, f) IN
        recs # << >> =>
            /\ f \in DOMAIN entity.current
            /\ entity.current[f] = recs[Len(recs)].new

\* C10: after any sequence of update_state calls, for every entity and every
\* field with a history record (last_chapter included) current[field] is the
\* 'new' value of the latest record of that field, and the 'old' value of a
\* record is the value current[field] held just before the change.
C10_CurrentAgreesWithHistory ==
    [][ /\ \A e \in Registered' : CurrentAgreesWithHistory(Buckets'.at[e[1]][e[2]])
        /\ ( /\ runs' = runs + 1
             /\ args'.entities_new = << >>
             /\ Len(args'.state_changes) = 1
             /\ ~UnknownChange(1)' )
           => LET c == args'.state_changes[1]
                  t == FindType(Buckets, c.entity_id)
                  before == Buckets.at[t][c.entity_id]
                  after == Buckets'.at[t][c.entity_id]
              IN after.history[Len(after.history)].old = Get(before.current, c.field, "")
      ]_vars

(***************************************************************************)
(* Steps D (index.db), E and H                                             *)
(***************************************************************************)
\* CREATE TABLE IF NOT EXISTS: the rows of existing tables are kept
create_index_db(db) == [db EXCEPT !.created = TRUE]

chunk_scenes(content) ==
    << [index |-> 1, start_line |-> 1, end_line |-> 50, location |-> "street",
        summary |-> "s1", characters |-> <<"yefan">>],
       [index |-> 2, start_line |-> 51, end_line |-> 110, location |-> "roadside",
        summary |-> "s2", characters |-> <<"yefan", "middle_woman">>],
       [index |-> 3, start_line |-> 111, end_line |-> 280, location |-> "jingya_3_602",
        summary |-> "s3", characters |-> <<"yefan", "guwanqing">>],
       [index |-> 4, start_line |-> 281, end_line |-> 328, location |-> "gate",
        summary |-> "s4", characters |-> <<"yefan">>] >>

\* INSERT into a table with an AUTOINCREMENT key: the rows get the next ids
InsertRows(table, rows) ==
    table \o [i \in 1..Len(rows) |-> [id |-> Len(table) + i, row |-> rows[i]]]

insert_chapter_data(db, chapter, title, location, word_count, entities_appeared, scenes, now) ==
    LET characters == [i \in 1..Len(entities_appeared) |-> entities_appeared[i].id]
        chapter_row == [title |-> title, location |-> location,
                        word_count |-> word_count, characters |-> characters,
                        scenes |-> scenes, created_at |-> now]
        appearance_rows ==
            [i \in 1..Len(entities_appeared) |->
                [chapter |-> chapter,
                 entity_id |-> entities_appeared[i].id,
                 entity_type |-> entities_appeared[i].type,
                 mentions |-> entities_appeared[i].mentions,
                 confidence |-> entities_appeared[i].confidence]]
        scene_rows ==
            [i \in 1..Len(scenes) |->
                [chapter |-> chapter, scene_index |-> scenes[i].index,
                 location |-> scenes[i].location, summary |-> scenes[i].summary,
                 characters |-> scenes[i].characters,
                 start_line |-> scenes[i].start_line, end_line |-> scenes[i].end_line]]
    IN [db EXCEPT !.chapters = Put(@, chapter, chapter_row),
                  !.entity_appearances = InsertRows(@, appearance_rows),
                  !.scenes = InsertRows(@, scene_rows)]

generate_report(chapter, ex, scenes, warnings, adopted, now) ==
    [chapter |-> chapter,
     entities_appeared |-> Len(ex.entities_appeared),
     entities_new |-> Len(ex.entities_new),
     state_changes |-> Len(ex.state_changes),
     relationships_new |-> Len(ex.relationships_new),
     scenes_chunked |-> Len(scenes),
     uncertain_resolved |-> Len(adopted),
     warnings |-> warnings,
     processed_at |-> now]

(***************************************************************************)
(* Specification of main(): one run of the script after the other on the   *)
(* same project directory.  Steps F and G only print.                      *)
(***************************************************************************)
ScenarioTexts == {c \in SUBSET Phrases :
                    {"yefan", "guwanqing", "jingya_xiaoqu", "zufang", "jia_weixin"} \subseteq c}

InitRun ==
    /\ pc = "start"
    /\ chapter_content \in ScenarioTexts
    /\ \E doc \in InitialStores : state_file = WholeFile(doc)
    /\ file_at_start = state_file
    /\ state = EmptyDict
    /\ extracted = NoExtraction
    /\ uncertain = << >>
    /\ resolved = NothingResolved
    /\ error = "none"
    /\ args = NoArgs
    /\ index_db = NoIndexDb
    /\ report = EmptyDict
    /\ clock = 0
    /\ runs = 1

\* Step A: load_context; json.load fails on a file that is not a whole document
LoadContext ==
    /\ pc = "start"
    /\ IF IsComplete(state_file)
       THEN /\ state' = state_file.doc
            /\ error' = "none"
            /\ pc' = "loaded"
       ELSE /\ state' = state
            /\ error' = "JSONDecodeError"
            /\ pc' = "failed"
    /\ UNCHANGED <<chapter_content, extracted, uncertain, resolved, args,
                   state_file, file_at_start, index_db, report, clock, runs>>

\* Step B
RunExtract ==
    /\ pc = "loaded"
    /\ extracted' = extract_entities(chapter_content,
                                     Get(state, "entities_v3", NoBuckets),
                                     Get(state, "alias_index", EmptyDict))
    /\ pc' = "extracted"
    /\ UNCHANGED <<chapter_content, uncertain, resolved, error, state, args,
                   state_file, file_at_start, index_db, report, clock, runs>>

\* Step C
RunDisambiguate ==
    /\ pc = "extracted"
    /\ uncertain' = extracted.uncertain
    /\ LET r == disambiguate(extracted.uncertain) IN
        /\ error' = r.error
        /\ resolved' = [adopted |-> r.adopted, warnings |-> r.warnings]
        /\ pc' = IF r.error = "none" THEN "resolved" ELSE "failed"
    /\ UNCHANGED <<chapter_content, extracted, state, args,
                   state_file, file_at_start, index_db, report, clock, runs>>

\* Step D, update_state down to open(STATE_FILE, 'w'), which empties the file
UpdateStateOpen ==
    /\ pc = "resolved"
    /\ state' = update_state(state, extracted.entities_appeared, extracted.entities_new,
                             extracted.state_changes, extracted.relationships_new,
                             clock + 1)
    /\ args' = [entities_new |-> extracted.entities_new,
                state_changes |-> extracted.state_changes,
                relationships_new |-> extracted.relationships_new]
    /\ state_file' = TruncatedFile(state')
    /\ clock' = clock + 1
    /\ pc' = "writing"
    /\ UNCHANGED <<chapter_content, extracted, uncertain, resolved, error,
                   file_at_start, index_db, report, runs>>

\* Step D, json.dump: the next piece of the document reaches the file
WriteStateChunk ==
    /\ pc = "writing"
    /\ state_file.written < Chunks
    /\ state_file' = [state_file EXCEPT !.written = @ + 1]
    /\ pc' = IF state_file.written + 1 = Chunks THEN "state_written" ELSE "writing"
    /\ UNCHANGED <<chapter_content, extracted, uncertain, resolved, error, state,
                   args, file_at_start, index_db, report, clock, runs>>

CreateIndexDb ==
    /\ pc = "state_written"
    /\ index_db' = create_index_db(index_db)
    /\ pc' = "db_ready"
    /\ UNCHANGED <<chapter_content, extracted, uncertain, resolved, error, state,
                   args, state_file, file_at_start, report, clock, runs>>

InsertChapterData ==
    /\ pc = "db_ready"
    /\ index_db.created
    /\ index_db' = insert_chapter_data(index_db, 1, "zufang", "jingya_xiaoqu", 4500,
                                       extracted.entities_appeared,
                                       chunk_scenes(chapter_content), clock + 1)
    /\ clock' = clock + 1
    /\ pc' = "indexed"
    /\ UNCHANGED <<chapter_content, extracted, uncertain, resolved, error, state,
                   args, state_file, file_at_start, report, runs>>

\* Step H
WriteReport ==
    /\ pc = "indexed"
    /\ report' = generate_report(1, extracted, chunk_scenes(chapter_content),
                                 resolved.warnings, resolved.adopted, clock + 1)
    /\ clock' = clock + 1
    /\ pc' = "done"
    /\ UNCHANGED <<chapter_content, extracted, uncertain, resolved, error, state,
                   args, state_file, file_at_start, index_db, runs>>

\* the script is started again on the same chapter
Rerun ==
    /\ pc \in {"done", "crashed", "failed"}
    /\ runs < MaxRuns
    /\ runs' = runs + 1
    /\ pc' = "start"
    /\ file_at_start' = state_file
    /\ state' = EmptyDict
    /\ extracted' = NoExtraction
    /\ uncertain' = << >>
    /\ resolved' = NothingResolved
    /\ error' = "none"
    /\ args' = NoArgs
    /\ UNCHANGED <<chapter_content, state_file, index_db, report, clock>>

NextRun ==
    \/ LoadContext
    \/ RunExtract
    \/ RunDisambiguate
    \/ UpdateStateOpen
    \/ WriteStateChunk
    \/ CreateIndexDb
    \/ InsertChapterData
    \/ WriteReport
    \/ Rerun

SpecRun == InitRun /\ [][NextRun]_vars

\* the process is killed, or a step fails, somewhere in the run
Interrupt ==
    /\ pc \in {"start", "loaded", "extracted", "resolved", "writing",
               "state_written", "db_ready", "indexed"}
    /\ pc' = "crashed"
    /\ UNCHANGED <<chapter_content, extracted, uncertain, resolved, error, state,
                   args, state_file, file_at_start, index_db, report, clock, runs>>

NextInterrupted == NextRun \/ Interrupt

SpecInterrupted == InitRun /\ [][NextInterrupted]_vars

(***************************************************************************)
(* Claims about the whole run                                              *)
(***************************************************************************)
NoDuplicates(s) == \A i, j \in DOMAIN s : i # j => s[i] # s[j]

WithoutTimes(doc) ==
    [entities_v3 |-> Get(doc, "entities_v3", NoBuckets),
     alias_index |-> Get(doc, "alias_index", EmptyDict),
     relationships |-> [i \in DOMAIN Get(doc, "relationships", << >>) |->
                           [doc.relationships[i] EXCEPT !.created_at = 0]],
     metadata |-> [doc.metadata EXCEPT !.updated_at = 0]]

RowsOf(table) == [i \in DOMAIN table |-> table[i].row]

\* C4: processing the same chapter a second time leaves the content that the
\* first processing left: the state document is the same (timestamps aside),
\* no history record, relationship or alias entry is duplicated, and
\* entity_appearances and scenes hold no duplicated row.
C4_ReprocessingIdempotent ==
    (pc = "done" /\ runs = 2) =>
        /\ WithoutTimes(state_file.doc) = WithoutTimes(file_at_start.doc)
        /\ \A e \in Registered : NoDuplicates(Buckets.at[e[1]][e[2]].history)
        /\ NoDuplicates(WithoutTimes(state).relationships)
        /\ \A n \in DOMAIN state.alias_index : NoDuplicates(state.alias_index[n])
        /\ NoDuplicates(RowsOf(index_db.entity_appearances))
        /\ NoDuplicates(RowsOf(index_db.scenes))

\* C7: wherever a run is interrupted or fails, state.json holds a whole
\* document: the one from before the run or the one of the finished merge.
C7_NeverPartiallyWritten ==
    pc \in {"crashed", "failed"} =>
        /\ IsComplete(state_file)
        /\ \/ state_file = file_at_start
           \/ state_file.doc = state
====
